---- MODULE Spec2Model ----
(***************************************************************************)
(* Model of src/main.py: the /chat endpoint, the /whatsapp webhook and     *)
(* the two tables they use (historico_conversas, orcamentos).              *)
(*                                                                         *)
(* Every /whatsapp request is handled by a coroutine; the await points of  *)
(* the handler are the places where another request may run, so each       *)
(* action below is the code between two awaits.  Time is counted in        *)
(* minutes.  An optional value (a nullable column, a missing row, None) is *)
(* a set with no or one element.                                           *)
(***************************************************************************)
EXTENDS Integers, Sequences, FiniteSets, TLC

\* ------------------------------------------------------------- bounds
\* Webhook requests received in one run.
MaxEvents == 2
\* Clock advances in one run.
MaxTicks == 2
\* Failures of the collaborators (database, AI, media, provider, the
\* webhook's own POST to /chat) in one run.
MaxFaults == 1

\* ---------------------------------------------------- program constants
\* timedelta(minutes=30), main.py:212
SNOOZE_MINUTES == 30
\* timedelta(hours=24) in minutes, main.py:255
EXPIRY_MINUTES == 1440
\* historico_atualizado[-20:], main.py:276
HISTORY_CAP == 20

\* The fixed texts of the code.
AI_STATUS_FALLBACK == "Desculpe, nao consegui obter uma resposta da IA no momento."
AI_ERROR_FALLBACK == "Desculpe, ocorreu um erro interno. Tente novamente em instantes."
LEAD_OK_REPLY == "Orcamento recebido com sucesso! Nossa equipe entrara em contato em breve."
LEAD_FAIL_REPLY == "Recebi seus dados, mas tive um problema para registrar."
UNRECOGNIZED_REPLY == "Nao entendi sua resposta. Poderia reformular?"
TRANSCRIBE_FAIL_TEXT == "[Nao foi possivel transcrever o audio. Peca para o usuario repetir.]"
DOWNLOAD_FAIL_TEXT == "[Houve um erro ao baixar o audio. Peca para o usuario reenviar.]"

\* The four columns of a lead, besides its id.
LeadKeys == {"nome", "email", "telefone", "servico"}

\* ------------------------------------------------------ small universes
\* The coroutines that may run at the same time.
Handlers == {"h1", "h2"}
\* Contact ids.
Phones == {"p1"}

\* The texts contacts type.
TypedTexts == {"m1"}

\* A webhook payload: phone ("" when the field is missing or empty),
\* fromMe, text.message and audio.audioUrl ("" when missing or empty).
Payloads ==
    { [phone |-> "",   fromMe |-> FALSE, text |-> "m1", audio |-> ""],
      [phone |-> "p1", fromMe |-> TRUE,  text |-> "m1", audio |-> ""],
      [phone |-> "p1", fromMe |-> FALSE, text |-> "m1", audio |-> ""],
      [phone |-> "p1", fromMe |-> FALSE, text |-> "m1", audio |-> "url"],
      [phone |-> "p1", fromMe |-> FALSE, text |-> "",   audio |-> "url"],
      [phone |-> "p1", fromMe |-> FALSE, text |-> "",   audio |-> ""] }

\* What the download of the audio gives: None (failure), empty or real bytes.
DownloadResults == { {}, {""}, {"bytes"} }
\* What the transcription gives: None (failure), an empty or a real text.
TranscribeResults == { {}, {""}, {"tr1"} }

\* One entry of a conversation history.
Entry(role, content) == [role |-> role, content |-> content]

\* A history of n entries written by earlier turns, oldest first.
OldContents ==
    << "u1", "a1", "u2", "a2", "u3", "a3", "u4", "a4", "u5", "a5",
       "u6", "a6", "u7", "a7", "u8", "a8", "u9", "a9", "u10", "a10" >>
OldHistory(n) ==
    [i \in 1..n |-> Entry(IF i % 2 = 1 THEN "user" ELSE "assistant", OldContents[i])]

\* ------------------------------------------------------------- state
VARIABLES
    sessions,   \* table historico_conversas: telefone -> row
    leads,      \* table orcamentos: the set of its rows
    nextId,     \* the next value uuid.uuid4() gives
    now,        \* the clock, in minutes
    ticks,      \* clock advances so far
    events,     \* requests received so far
    faults,     \* failures of collaborators so far
    pc,         \* per coroutine: the await it is suspended at
    loc,        \* per coroutine: its local variables
    obs,        \* per coroutine: the external calls its request has made
    resp        \* per coroutine: the HTTP response of its last request

vars == << sessions, leads, nextId, now, ticks, events, faults, pc, loc, obs, resp >>

\* The local variables of a handler that is not running.  Of the row read
\* (resultado) the handler keeps using only whether there is one.
NoLocals ==
    [ via |-> "",
      phone |-> "",
      conteudo_processar |-> "",
      snooze_until |-> 0,
      existe |-> FALSE,
      resultado |-> FALSE,
      historico_recuperado |-> << >>,
      mensagem_resposta |-> "" ]

\* What a request has done so far: the calls it made to its collaborators
\* and those of them that failed, the user message given to the AI, the
\* answer of the AI and the branch of main.py:184-197 taken on it, the
\* message given to send-text, and how the handler ended.
NoCalls ==
    [ calls |-> {}, failures |-> {}, mensagem |-> {}, resposta |-> {}, class |-> "",
      sent |-> {}, outcome |-> "" ]

\* Call c was made, and went well or not.
Called(o, c, ok) ==
    [o EXCEPT !.calls = @ \cup {c}, !.failures = IF ok THEN @ ELSE @ \cup {c}]

\* ----------------------------------------------------------- AI gateway
\* A value json.loads can give, or a plain str: kind "str" (text), "dict"
\* (fields: the keys with a non-null value; nulls: the keys whose value is
\* null; id: the value of an "id" key) or "other" (number, list, null ...).
Str(t) == [kind |-> "str", text |-> t, fields |-> << >>, nulls |-> {}, id |-> {}]
Dict(f, n, i) == [kind |-> "dict", text |-> "", fields |-> f, nulls |-> n, id |-> i]
Other == [kind |-> "other", text |-> "", fields |-> << >>, nulls |-> {}, id |-> {}]

FullFields == [k \in LeadKeys |-> "v"]

\* The content of a completion: a text that is no JSON document (form
\* "plain", the text itself) or a JSON document (form "json", the value it
\* denotes: a string, an object, anything else).
Plain(t) == [form |-> "plain", text |-> t, doc |-> Other]
Json(v) == [form |-> "json", text |-> "", doc |-> v]

AIContents ==
    { Plain("t1"),
      Json(Str("t1")),
      Json(Dict(FullFields, {}, {})),
      Json(Dict(FullFields @@ ("obs" :> "x"), {}, {})),
      Json(Dict([k \in LeadKeys \ {"email"} |-> "v"], {"email"}, {})),
      Json(Dict([k \in LeadKeys \ {"servico"} |-> "v"], {}, {})),
      Json(Dict(FullFields, {}, {0})),
      Json(Other) }

\* What the completion endpoint does with one request: a 2xx answer with a
\* well-formed envelope, a non-2xx answer, or anything else (transport
\* error, timeout, malformed envelope).
AIOutcomes ==
    { [net |-> "ok", content |-> c] : c \in AIContents }
    \cup { [net |-> n, content |-> Plain("")] : n \in {"status_error", "exception"} }

\* json.loads(content), with JSONDecodeError caught: main.py:97-100.
ParseContent(c) == IF c.form = "json" THEN c.doc ELSE Str(c.text)

\* chamar_ia without its last except block: what is not an HTTP status error
\* gives no text.
chamar_ia_Propagates(outcome) ==
    CASE outcome.net = "ok" -> ParseContent(outcome.content)
      [] outcome.net = "status_error" -> Str(AI_STATUS_FALLBACK)
      [] OTHER -> Other

\* chamar_ia, main.py:76-106, given what the endpoint does.
chamar_ia(outcome) ==
    CASE outcome.net = "ok" -> ParseContent(outcome.content)
      [] outcome.net = "status_error" -> Str(AI_STATUS_FALLBACK)
      [] OTHER -> Str(AI_ERROR_FALLBACK)

\* ------------------------------------------------------------ /chat
\* The keys of a dict.
Keys(r) == DOMAIN r.fields \cup r.nulls \cup (IF r.id = {} THEN {} ELSE {"id"})

\* isinstance(resposta, dict) and all four keys in resposta: main.py:184.
IsLeadShaped(r) == r.kind = "dict" /\ LeadKeys \subseteq Keys(r)

\* The history entries /chat passes on to the AI: main.py:177-179.
FilterRoles(h) == SelectSeq(h, LAMBDA e : e.role \in {"user", "assistant"})

\* The id of the row to insert: {"id": uuid.uuid4(), **resposta}, where an
\* "id" key of resposta replaces the generated one: main.py:186.
LeadId(r) == IF r.id = {} THEN nextId ELSE CHOOSE i \in r.id : TRUE

\* Whether the insert of main.py:187-188 is accepted by the table: no
\* column other than the table's, no NULL in a NOT NULL column, no second
\* row with the same primary key.
InsertAccepted(r) ==
    /\ Keys(r) \subseteq LeadKeys \cup {"id"}
    /\ r.nulls = {}
    /\ \A l \in leads : l.id # LeadId(r)

\* The row with the service left out.
LeadRow_NoService(r) ==
    [ id |-> LeadId(r), nome |-> r.fields["nome"], email |-> r.fields["email"],
      telefone |-> r.fields["telefone"], servico |-> "" ]

\* The row main.py:186-187 inserts.
LeadRow(r) ==
    [ id |-> LeadId(r), nome |-> r.fields["nome"], email |-> r.fields["email"],
      telefone |-> r.fields["telefone"], servico |-> r.fields["servico"] ]

\* ---------------------------------------------------------- sessions
\* database.fetch_one of the row of a contact: the row, or None.
FetchOne(p) == IF p \in DOMAIN sessions THEN {sessions[p]} ELSE {}

\* The snooze test with its comparison turned around.
SnoozeActive_Reversed(row, t) == \E s \in row.snoozed_until : s < t

\* resultado["snoozed_until"] and resultado["snoozed_until"] > now: main.py:253.
SnoozeActive(row, t) == \E s \in row.snoozed_until : s > t

\* The expiry test with <= in place of <.
IsFresh_Inclusive(row, t) == t - row.last_updated_at <= EXPIRY_MINUTES

\* now - resultado["last_updated_at"] < timedelta(hours=24): main.py:255.
IsFresh(row, t) == t - row.last_updated_at < EXPIRY_MINUTES

\* The truncation with [:20] in place of [-20:].
LastEntries_First(h) == IF Len(h) > HISTORY_CAP THEN SubSeq(h, 1, HISTORY_CAP) ELSE h

\* The truncation that keeps one entry less.
LastEntries_OffByOne(h) ==
    IF Len(h) > HISTORY_CAP THEN SubSeq(h, Len(h) - HISTORY_CAP + 2, Len(h)) ELSE h

\* historico_atualizado[-20:]: main.py:276.
LastEntries(h) ==
    IF Len(h) > HISTORY_CAP THEN SubSeq(h, Len(h) - HISTORY_CAP + 1, Len(h)) ELSE h

\* The new history without the entry of the assistant.
HistoricoAtualizado_UserOnly(h, conteudo, mensagem) == h \o << Entry("user", conteudo) >>

\* historico_recuperado + [user entry, assistant entry]: main.py:272-275.
HistoricoAtualizado(h, conteudo, mensagem) ==
    h \o << Entry("user", conteudo), Entry("assistant", mensagem) >>

\* The row of a turn with a snooze left in it.
TurnRow_StillSnoozed(h, t) == [historico |-> h, last_updated_at |-> t, snoozed_until |-> {t}]

\* The row written by the update or insert of main.py:279-281.
TurnRow(h, t) == [historico |-> h, last_updated_at |-> t, snoozed_until |-> {}]

\* The row inserted for a contact without one by main.py:218.
SnoozeRow(t, until) == [historico |-> << >>, last_updated_at |-> t, snoozed_until |-> {until}]

\* The snooze with hours in place of minutes.
SnoozeUntil_Hours(t) == t + SNOOZE_MINUTES * 60

\* snooze_until of main.py:212.
SnoozeUntil(t) == t + SNOOZE_MINUTES

\* ------------------------------------------------------------ responses
Response(code, status, message) == [code |-> code, status |-> status, message |-> message]

\* FastAPI's answers to an HTTPException(400) and to an uncaught exception.
BadRequest == Response(400, "error", "O campo 'phone' e obrigatorio.")
ServerError == Response(500, "error", "Internal Server Error")

\* The handler of coroutine h returns response r: its locals are gone.
ReturnWith(h, r, o) ==
    /\ pc' = [pc EXCEPT ![h] = "idle"]
    /\ loc' = [loc EXCEPT ![h] = NoLocals]
    /\ resp' = [resp EXCEPT ![h] = {r}]
    /\ obs' = [obs EXCEPT ![h] = o]

\* The request ended with this outcome.
Ended(o, outcome) == [o EXCEPT !.outcome = outcome]

\* The handler of coroutine h goes on to its next await.
GotoWith(h, label, locals, o) ==
    /\ pc' = [pc EXCEPT ![h] = label]
    /\ loc' = [loc EXCEPT ![h] = locals]
    /\ obs' = [obs EXCEPT ![h] = o]
    /\ UNCHANGED resp

\* The handler without its except block: the exception reaches FastAPI.
Absorbed_Propagates == Response(500, "error", "Internal Server Error")

\* The return of the except block and of the end of the handler: main.py:299-302.
Absorbed == Response(200, "ok", "")

\* -------------------------------------------------------------- Init
\* The run starts one minute before the history of a row last written at
\* minute 0 expires.  There is no row yet, or one that is two entries short
\* of a full history: written at minute 0 and not snoozed, or written at
\* minute 1 and snoozed up to the next minute.
InitNow == EXPIRY_MINUTES - 1
InitRows ==
    { [historico |-> OldHistory(HISTORY_CAP - 2), last_updated_at |-> 0, snoozed_until |-> {}],
      [historico |-> OldHistory(HISTORY_CAP - 2), last_updated_at |-> 1,
       snoozed_until |-> {InitNow + 1}] }
InitSessions == { << >> } \cup { [p \in Phones |-> row] : row \in InitRows }

Init ==
    /\ sessions \in InitSessions
    /\ leads = {}
    /\ nextId = 1
    /\ now = InitNow
    /\ ticks = 0
    /\ events = 0
    /\ faults = 0
    /\ pc = [h \in Handlers |-> "idle"]
    /\ loc = [h \in Handlers |-> NoLocals]
    /\ obs = [h \in Handlers |-> NoCalls]
    /\ resp = [h \in Handlers |-> {}]

\* ------------------------------------------------------- /whatsapp
\* The calls of a step went as oks tells: every failure among them counts.
Faults(oks) ==
    IF FALSE \in oks
    THEN faults < MaxFaults /\ faults' = faults + 1
    ELSE UNCHANGED faults

\* The server starts a coroutine for a request.  Coroutines are
\* interchangeable, so the first one that is free takes it.
Accepts(h) ==
    /\ pc[h] = "idle"
    /\ \A g \in Handlers : pc[g] = "idle" => h = "h1" \/ g # "h1"

\* if audio_bytes / if texto_transcrito: None and the empty value are false.
Truthy(r) == r \notin { {}, {""} }

\* The effective message with one placeholder for both failures.
ConteudoDoAudio_OnePlaceholder(dl, tr) ==
    IF Truthy(dl) /\ Truthy(tr) THEN CHOOSE t \in tr : TRUE ELSE DOWNLOAD_FAIL_TEXT

\* main.py:232-242: the effective message of an audio event, given what the
\* download and the transcription give.
ConteudoDoAudio(dl, tr) ==
    IF Truthy(dl)
    THEN IF Truthy(tr) THEN CHOOSE t \in tr : TRUE ELSE TRANSCRIBE_FAIL_TEXT
    ELSE DOWNLOAD_FAIL_TEXT

\* The media calls of an audio event: the download, then the transcription
\* if there is something to transcribe.
MediaCalls(dl, tr) ==
    IF Truthy(dl)
    THEN Called(Called(NoCalls, "download", TRUE), "transcribe", Truthy(tr))
    ELSE Called(NoCalls, "download", FALSE)

\* The effective message with a placeholder also for an event without audio.
ConteudoProcessar_Placeholder(payload, dl, tr) ==
    IF payload.text # "" THEN payload.text
    ELSE IF payload.audio # "" THEN ConteudoDoAudio(dl, tr)
    ELSE DOWNLOAD_FAIL_TEXT

\* conteudo_processar of main.py:223-242: the text when there is one, else
\* what comes of the audio when there is one, else None (here "").
ConteudoProcessar(payload, dl, tr) ==
    IF payload.text # "" THEN payload.text
    ELSE IF payload.audio # "" THEN ConteudoDoAudio(dl, tr)
    ELSE ""

\* main.py:202-245, up to the first await on the database: the payload is
\* read, the kind of event decided and the audio turned into text.  The
\* media calls read and write nothing another request sees.
Receive(h, payload, dl, tr) ==
    /\ Accepts(h)
    /\ events < MaxEvents
    /\ events' = events + 1
    /\ UNCHANGED << sessions, leads, nextId, now, ticks >>
    /\ LET fresh == [NoLocals EXCEPT !.via = "whatsapp", !.phone = payload.phone]
           conteudo == ConteudoProcessar(payload, dl, tr)
       IN
       \/ /\ payload.phone = ""
          /\ pc' = [pc EXCEPT ![h] = "idle"]
          /\ loc' = [loc EXCEPT ![h] = NoLocals]
          /\ resp' = [resp EXCEPT ![h] = {BadRequest}]
          /\ obs' = [obs EXCEPT ![h] = Ended(NoCalls, "rejected")]
          /\ UNCHANGED faults
       \/ /\ payload.phone # ""
          /\ payload.fromMe
          /\ pc' = [pc EXCEPT ![h] = "snooze_select"]
          /\ loc' = [loc EXCEPT ![h] = [fresh EXCEPT !.snooze_until = SnoozeUntil(now)]]
          /\ resp' = [resp EXCEPT ![h] = {}]
          /\ obs' = [obs EXCEPT ![h] = NoCalls]
          /\ UNCHANGED faults
       \/ /\ payload.phone # ""
          /\ ~payload.fromMe
          /\ payload.text # ""
          /\ conteudo # ""
          /\ pc' = [pc EXCEPT ![h] = "fetch"]
          /\ loc' = [loc EXCEPT ![h] = [fresh EXCEPT !.conteudo_processar = conteudo]]
          /\ resp' = [resp EXCEPT ![h] = {}]
          /\ obs' = [obs EXCEPT ![h] = NoCalls]
          /\ UNCHANGED faults
       \/ /\ payload.phone # ""
          /\ ~payload.fromMe
          /\ payload.text = ""
          /\ conteudo # ""
          /\ IF payload.audio # ""
             THEN Faults({dl # {}, Truthy(dl) => tr # {}})
             ELSE UNCHANGED faults
          /\ pc' = [pc EXCEPT ![h] = "fetch"]
          /\ loc' = [loc EXCEPT ![h] = [fresh EXCEPT !.conteudo_processar = conteudo]]
          /\ resp' = [resp EXCEPT ![h] = {}]
          /\ obs' = [obs EXCEPT ![h] = IF payload.audio # "" THEN MediaCalls(dl, tr) ELSE NoCalls]
       \/ /\ payload.phone # ""
          /\ ~payload.fromMe
          /\ conteudo = ""
          /\ pc' = [pc EXCEPT ![h] = "idle"]
          /\ loc' = [loc EXCEPT ![h] = NoLocals]
          /\ resp' = [resp EXCEPT ![h] =
                        {Response(200, "ok", "Ignorando mensagem sem conteudo de texto ou audio.")}]
          /\ obs' = [obs EXCEPT ![h] = Ended(NoCalls, "ignored")]
          /\ UNCHANGED faults

\* main.py:213-214: the select of the fromMe branch.  The branch is outside
\* the try block, so a failure of the database ends the request with 500.
SnoozeSelect(h, dbOk) ==
    /\ pc[h] = "snooze_select"
    /\ Faults({dbOk})
    /\ UNCHANGED << sessions, leads, nextId, now, ticks, events >>
    /\ \/ /\ dbOk
          /\ GotoWith(h, "snooze_write", [loc[h] EXCEPT !.existe = FetchOne(loc[h].phone) # {}],
                      Called(obs[h], "snooze_read", TRUE))
       \/ /\ ~dbOk
          /\ ReturnWith(h, ServerError, Ended(Called(obs[h], "snooze_read", FALSE), "error"))

\* main.py:215-221: the update, or the insert, of the fromMe branch.
SnoozeWrite(h, dbOk) ==
    /\ pc[h] = "snooze_write"
    /\ Faults({dbOk})
    /\ UNCHANGED << leads, nextId, now, ticks, events >>
    /\ LET p == loc[h].phone IN
       \/ /\ dbOk
          /\ loc[h].existe
          /\ sessions' = [q \in DOMAIN sessions |->
                            IF q = p THEN [sessions[q] EXCEPT !.snoozed_until = {loc[h].snooze_until}]
                                     ELSE sessions[q]]
          /\ ReturnWith(h, Response(200, "ok", "Modo manual ativado."),
                        Ended(Called(obs[h], "snooze_write", TRUE), "manual_set"))
       \/ /\ dbOk
          /\ ~loc[h].existe
          /\ p \notin DOMAIN sessions
          /\ sessions' = (p :> SnoozeRow(now, loc[h].snooze_until)) @@ sessions
          /\ ReturnWith(h, Response(200, "ok", "Modo manual ativado."),
                        Ended(Called(obs[h], "snooze_write", TRUE), "manual_set"))
       \/ /\ ~dbOk \/ (~loc[h].existe /\ p \in DOMAIN sessions)
          /\ UNCHANGED sessions
          /\ ReturnWith(h, ServerError, Ended(Called(obs[h], "snooze_write", FALSE), "error"))

\* main.py:248-258: the session is read, then the snooze and the expiry
\* are tested against the time of the read.
Fetch(h, dbOk) ==
    /\ pc[h] = "fetch"
    /\ Faults({dbOk})
    /\ UNCHANGED << sessions, leads, nextId, now, ticks, events >>
    /\ LET resultado == FetchOne(loc[h].phone) IN
       \/ /\ ~dbOk
          /\ ReturnWith(h, Absorbed, Ended(Called(obs[h], "session_read", FALSE), "failed"))
       \/ /\ dbOk
          /\ \E row \in resultado : SnoozeActive(row, now)
          /\ ReturnWith(h, Response(200, "ok", "Conversa em modo manual."),
                        Ended(Called(obs[h], "session_read", TRUE), "manual"))
       \/ /\ dbOk
          /\ \A row \in resultado : ~SnoozeActive(row, now)
          /\ GotoWith(h, "chat",
                      [loc[h] EXCEPT
                         !.resultado = resultado # {},
                         !.historico_recuperado =
                            IF \E row \in resultado : IsFresh(row, now)
                            THEN (CHOOSE row \in resultado : TRUE).historico
                            ELSE << >>],
                      Called(obs[h], "session_read", TRUE))

\* The histories a client of /chat sends along.
ClientHistories ==
    { << Entry("system", "s1"), Entry("user", "u1"), Entry("assistant", "a1") >> }

\* main.py:150-152: a request to /chat from a client other than the webhook.
ReceiveChat(h, mensagem, historico) ==
    /\ Accepts(h)
    /\ events < MaxEvents
    /\ events' = events + 1
    /\ pc' = [pc EXCEPT ![h] = "chat"]
    /\ loc' = [loc EXCEPT ![h] = [NoLocals EXCEPT !.via = "chat",
                                                  !.conteudo_processar = mensagem,
                                                  !.historico_recuperado = historico]]
    /\ resp' = [resp EXCEPT ![h] = {}]
    /\ obs' = [obs EXCEPT ![h] = NoCalls]
    /\ UNCHANGED << sessions, leads, nextId, now, ticks, faults >>

\* main.py:260-267: the webhook's POST to /chat fails before /chat runs
\* (no connection, PUBLIC_URL unset); the except block absorbs it.
ChatDown(h) ==
    /\ pc[h] = "chat"
    /\ loc[h].via = "whatsapp"
    /\ Faults({FALSE})
    /\ ReturnWith(h, Absorbed, Ended(Called(obs[h], "chat_post", FALSE), "failed"))
    /\ UNCHANGED << sessions, leads, nextId, now, ticks, events >>

\* The messages /chat sends to the AI, the system prompt left out:
\* main.py:176-180.
Messages(historico, mensagem) == FilterRoles(historico) \o << Entry("user", mensagem) >>

\* What the completion endpoint may do with a request: anything when the
\* last message is a typed one; to what came of an audio it answers with
\* a plain text.
AnswersTo(messages) ==
    IF messages[Len(messages)].content \in TypedTexts
    THEN AIOutcomes
    ELSE {[net |-> "ok", content |-> Plain("t1")]}

\* The reply of /chat with the confirmation given also when the insert fails.
ChatReply_AlwaysConfirms(resposta, saved) ==
    IF IsLeadShaped(resposta)
    THEN LEAD_OK_REPLY
    ELSE IF resposta.kind = "str" THEN resposta.text ELSE UNRECOGNIZED_REPLY

\* main.py:184-197: the reply of /chat to the answer of the AI, given
\* whether the database accepts the insert of a lead.
ChatReply(resposta, saved) ==
    IF IsLeadShaped(resposta)
    THEN IF saved THEN LEAD_OK_REPLY ELSE LEAD_FAIL_REPLY
    ELSE IF resposta.kind = "str" THEN resposta.text ELSE UNRECOGNIZED_REPLY

\* The branch of main.py:184-197 taken on the answer of the AI.
Classe(resposta) ==
    IF IsLeadShaped(resposta) THEN "lead"
    ELSE IF resposta.kind = "str" THEN "text" ELSE "unrecognized"

\* main.py:150-197, the whole handler of /chat, and what its caller does
\* with the reply.  A client of /chat gets it as the response.  The webhook
\* (main.py:267-276) gets it unless its POST fails (timeout, non-2xx), and
\* then builds the history to store.
Chat(h, outcome, dbOk, httpOk) ==
    /\ pc[h] = "chat"
    /\ httpOk \/ loc[h].via = "whatsapp"
    /\ UNCHANGED << sessions, now, ticks, events >>
    /\ LET messages == Messages(loc[h].historico_recuperado, loc[h].conteudo_processar)
           resposta == chamar_ia(outcome)
           lead == IsLeadShaped(resposta)
           saved == lead /\ dbOk /\ InsertAccepted(resposta)
           reply == ChatReply(resposta, saved)
           called == [Called(Called(IF lead THEN Called(obs[h], "lead_write", saved) ELSE obs[h],
                                    "ai", outcome.net = "ok"),
                             "chat_post", httpOk)
                        EXCEPT !.mensagem = {messages[Len(messages)].content},
                               !.resposta = {resposta}, !.class = Classe(resposta)]
       IN /\ outcome \in AnswersTo(messages)
          /\ dbOk \/ lead
          /\ Faults({outcome.net = "ok", dbOk, httpOk})
          /\ nextId' = IF lead THEN nextId + 1 ELSE nextId
          /\ leads' = IF saved THEN leads \cup {LeadRow(resposta)} ELSE leads
          /\ \/ /\ loc[h].via = "chat"
                /\ ReturnWith(h, Response(200, "", reply), Ended(called, "chat_reply"))
             \/ /\ loc[h].via = "whatsapp"
                /\ httpOk
                /\ GotoWith(h, "write",
                            [loc[h] EXCEPT !.mensagem_resposta = reply],
                            called)
             \/ /\ loc[h].via = "whatsapp"
                /\ ~httpOk
                /\ ReturnWith(h, Absorbed, Ended(called, "failed"))

\* historico_str built on the history the table holds at the time of the
\* write, as a read-modify-write in one transaction would.
HistoricoStr_Merged(h) ==
    LastEntries(HistoricoAtualizado(IF loc[h].phone \in DOMAIN sessions
                                    THEN sessions[loc[h].phone].historico
                                    ELSE << >>,
                                    loc[h].conteudo_processar, loc[h].mensagem_resposta))

\* historico_str of main.py:272-276, from the locals it is computed from.
HistoricoStr(h) ==
    LastEntries(HistoricoAtualizado(loc[h].historico_recuperado,
                                    loc[h].conteudo_processar, loc[h].mensagem_resposta))

\* The write with an except block of its own: when it fails the handler
\* goes on to send the reply.
Write_SendsAnyway(h, dbOk) ==
    /\ pc[h] = "write"
    /\ Faults({dbOk})
    /\ UNCHANGED << leads, nextId, now, ticks, events >>
    /\ LET p == loc[h].phone
           row == TurnRow(HistoricoStr(h), now)
       IN \/ /\ dbOk
             /\ loc[h].resultado
             /\ sessions' = [q \in DOMAIN sessions |-> IF q = p THEN row ELSE sessions[q]]
             /\ GotoWith(h, "send", loc[h], Called(obs[h], "session_write", TRUE))
          \/ /\ dbOk
             /\ ~loc[h].resultado
             /\ p \notin DOMAIN sessions
             /\ sessions' = (p :> row) @@ sessions
             /\ GotoWith(h, "send", loc[h], Called(obs[h], "session_write", TRUE))
          \/ /\ ~dbOk \/ (~loc[h].resultado /\ p \in DOMAIN sessions)
             /\ UNCHANGED sessions
             /\ GotoWith(h, "send", loc[h], Called(obs[h], "session_write", FALSE))

\* main.py:278-284: the update (a row was read) or the insert (none was).
Write(h, dbOk) ==
    /\ pc[h] = "write"
    /\ Faults({dbOk})
    /\ UNCHANGED << leads, nextId, now, ticks, events >>
    /\ LET p == loc[h].phone
           row == TurnRow(HistoricoStr(h), now)
       IN \/ /\ dbOk
             /\ loc[h].resultado
             /\ sessions' = [q \in DOMAIN sessions |-> IF q = p THEN row ELSE sessions[q]]
             /\ GotoWith(h, "send", loc[h], Called(obs[h], "session_write", TRUE))
          \/ /\ dbOk
             /\ ~loc[h].resultado
             /\ p \notin DOMAIN sessions
             /\ sessions' = (p :> row) @@ sessions
             /\ GotoWith(h, "send", loc[h], Called(obs[h], "session_write", TRUE))
          \/ /\ ~dbOk \/ (~loc[h].resultado /\ p \in DOMAIN sessions)
             /\ UNCHANGED sessions
             /\ ReturnWith(h, Absorbed, Ended(Called(obs[h], "session_write", FALSE), "failed"))

\* main.py:286-302: the send-text call; its failure is absorbed.
Send(h, ok) ==
    /\ pc[h] = "send"
    /\ Faults({ok})
    /\ UNCHANGED << sessions, leads, nextId, now, ticks, events >>
    /\ LET message == [phone |-> loc[h].phone, message |-> loc[h].mensagem_resposta] IN
       \/ /\ ok
          /\ ReturnWith(h, Absorbed,
                        Ended([Called(obs[h], "send", TRUE) EXCEPT !.sent = {message}], "replied"))
       \/ /\ ~ok
          /\ ReturnWith(h, Absorbed,
                        Ended([Called(obs[h], "send", FALSE) EXCEPT !.sent = {message}], "failed"))

\* A minute passes.
Tick ==
    /\ ticks < MaxTicks
    /\ ticks' = ticks + 1
    /\ now' = now + 1
    /\ UNCHANGED << sessions, leads, nextId, events, faults, pc, loc, obs, resp >>

Next ==
    \/ \E h \in Handlers, payload \in Payloads, dl \in DownloadResults, tr \in TranscribeResults :
          Receive(h, payload, dl, tr)
    \/ \E h \in Handlers, dbOk \in BOOLEAN : SnoozeSelect(h, dbOk)
    \/ \E h \in Handlers, dbOk \in BOOLEAN : SnoozeWrite(h, dbOk)
    \/ \E h \in Handlers, dbOk \in BOOLEAN : Fetch(h, dbOk)
    \/ \E h \in Handlers, m \in TypedTexts, hist \in ClientHistories : ReceiveChat(h, m, hist)
    \/ \E h \in Handlers : ChatDown(h)
    \/ \E h \in Handlers, outcome \in AIOutcomes, dbOk \in BOOLEAN, httpOk \in BOOLEAN :
          Chat(h, outcome, dbOk, httpOk)
    \/ \E h \in Handlers, dbOk \in BOOLEAN : Write(h, dbOk)
    \/ \E h \in Handlers, ok \in BOOLEAN : Send(h, ok)
    \/ Tick

Spec == Init /\ [][Next]_vars

\* The handler of coroutine h is resumed from the await it is suspended at.
Resume(h) ==
    \/ \E dbOk \in BOOLEAN : SnoozeSelect(h, dbOk)
    \/ \E dbOk \in BOOLEAN : SnoozeWrite(h, dbOk)
    \/ \E dbOk \in BOOLEAN : Fetch(h, dbOk)
    \/ ChatDown(h)
    \/ \E outcome \in AIOutcomes, dbOk \in BOOLEAN, httpOk \in BOOLEAN : Chat(h, outcome, dbOk, httpOk)
    \/ \E dbOk \in BOOLEAN : Write(h, dbOk)
    \/ \E ok \in BOOLEAN : Send(h, ok)

\* Every call a handler awaits returns or fails in the end, and the event
\* loop then resumes the handler.
FairSpec == Spec /\ \A h \in Handlers : WF_vars(Resume(h))

\* ===================================================================
\* Properties
\* ===================================================================
\* The last n entries of a sequence.
Suffix(seq, n) ==
    IF Len(seq) <= n THEN seq ELSE [i \in 1..n |-> seq[Len(seq) - n + i]]

\* The two entries of a turn.
Pair(user, assistant) ==
    << [role |-> "user", content |-> user], [role |-> "assistant", content |-> assistant] >>

\* The stored history of a contact in a table t; none when it has no row.
StoredIn(t, p) == IF p \in DOMAIN t THEN t[p].historico ELSE << >>

\* Coroutine h takes the step that leaves its await `label`.
Leaves(h, label) == pc[h] = label /\ pc'[h] # label

\* The answer of the AI to the request of h is a lead by main.py:184,
\* a plain text, or neither.
AnswerIsLead(h) ==
    \E r \in obs[h].resposta :
        r.kind = "dict" /\ LeadKeys \subseteq (DOMAIN r.fields \cup r.nulls)
AnswerIsText(h) == \E r \in obs[h].resposta : r.kind = "str"
AnswerIsUnrecognized(h) == obs[h].resposta # {} /\ ~AnswerIsLead(h) /\ ~AnswerIsText(h)

\* What the session write of h is to store, by section 4.6 step 8.
TurnHistory(h, reply) ==
    Suffix(loc[h].historico_recuperado \o Pair(loc[h].conteudo_processar, reply), 20)

\* ------------------------------------------------------------------
\* C1: when a /whatsapp event that is not fromMe reads a session whose
\* snoozedUntil is strictly in the future, the handler ends there: no AI
\* call, no reply given to the provider, no session write, and the table
\* is left as it was.  This holds whatever events came before.
C1_SnoozedNoAutomation ==
    [][ \A h \in Handlers :
          ( /\ Leaves(h, "fetch")
            /\ "session_read" \notin obs'[h].failures
            /\ loc[h].phone \in DOMAIN sessions
            /\ \E s \in sessions[loc[h].phone].snoozed_until : s > now )
          => /\ pc'[h] = "idle"
             /\ obs'[h].outcome = "manual"
             /\ obs'[h].calls \cap {"ai", "lead_write", "session_write", "send"} = {}
             /\ obs'[h].sent = {}
             /\ sessions' = sessions ]_vars

\* An event ended in manual mode in a run in which a fromMe event set the
\* snooze of a contact with a stored history.
C1_Witness ==
    \E h \in Handlers :
        /\ obs[h].outcome = "manual"
        /\ "p1" \in DOMAIN sessions
        /\ sessions["p1"].snoozed_until = {InitNow + SNOOZE_MINUTES}
        /\ sessions["p1"].historico # << >>

\* ------------------------------------------------------------------
\* C2 as stated: the session write of a turn whose AI reply is a lead
\* leaves the stored history of the contact as it was.
C2_LeadTurnNotStored ==
    [][ \A h \in Handlers :
          (Leaves(h, "write") /\ AnswerIsLead(h))
          => StoredIn(sessions', loc[h].phone) = StoredIn(sessions, loc[h].phone) ]_vars

\* C2 as amended: a turn whose AI reply is a lead is stored like a text
\* turn.  Its reply is the fixed confirmation when the lead was saved and
\* the fixed "not registered" text when it was not, and a session write
\* that succeeds stores the last 20 entries of working history + user
\* entry + assistant entry with that reply.
C2_LeadTurnStored ==
    [][ \A h \in Handlers :
          (Leaves(h, "write") /\ AnswerIsLead(h))
          => /\ loc[h].mensagem_resposta =
                  IF "lead_write" \in obs[h].failures THEN LEAD_FAIL_REPLY ELSE LEAD_OK_REPLY
             /\ pc'[h] = "send"
                  => StoredIn(sessions', loc[h].phone) = TurnHistory(h, loc[h].mensagem_resposta)
             /\ pc'[h] # "send" => sessions' = sessions ]_vars

\* The turn of a lead that could not be saved is in the stored history.
C2_Witness ==
    \E h \in Handlers :
        /\ pc[h] = "send"
        /\ AnswerIsLead(h)
        /\ "lead_write" \in obs[h].failures
        /\ LET hist == sessions[loc[h].phone].historico IN
           /\ Len(hist) = 20
           /\ hist[20] = [role |-> "assistant", content |-> LEAD_FAIL_REPLY]
           /\ hist[19] = [role |-> "user", content |-> "m1"]

\* ------------------------------------------------------------------
\* C3 as stated: when the AI reply is neither a string nor a lead, the
\* reply is the fixed clarification request and the session write of the
\* turn leaves the stored history as it was.
C3_UnrecognizedNotStored ==
    [][ \A h \in Handlers :
          (Leaves(h, "write") /\ AnswerIsUnrecognized(h))
          => /\ loc[h].mensagem_resposta = UNRECOGNIZED_REPLY
             /\ StoredIn(sessions', loc[h].phone) = StoredIn(sessions, loc[h].phone) ]_vars

\* C3 as amended: when the AI reply is neither a string nor a lead, the
\* reply is the fixed clarification request, and a session write that
\* succeeds stores the last 20 entries of working history + user entry +
\* assistant entry with that clarification request.
C3_UnrecognizedStored ==
    [][ \A h \in Handlers :
          (Leaves(h, "write") /\ AnswerIsUnrecognized(h))
          => /\ loc[h].mensagem_resposta = UNRECOGNIZED_REPLY
             /\ pc'[h] = "send"
                  => StoredIn(sessions', loc[h].phone) = TurnHistory(h, UNRECOGNIZED_REPLY)
             /\ pc'[h] # "send" => sessions' = sessions ]_vars

\* The clarification request is the last entry of a stored history.
C3_Witness ==
    \E h \in Handlers :
        /\ pc[h] = "send"
        /\ AnswerIsUnrecognized(h)
        /\ LET hist == sessions[loc[h].phone].historico IN
           /\ Len(hist) >= 2
           /\ hist[Len(hist)] = [role |-> "assistant", content |-> UNRECOGNIZED_REPLY]

\* ------------------------------------------------------------------
\* C4: the stored history of every session has at most 20 entries, and a
\* session write stores the last 20 entries of working history + new user
\* entry + new assistant entry: when there are more, the oldest go.
C4_HistoryCapped ==
    /\ [](\A p \in DOMAIN sessions : Len(sessions[p].historico) <= 20)
    /\ [][ \A h \in Handlers :
             (Leaves(h, "write") /\ pc'[h] = "send")
             => LET all == loc[h].historico_recuperado
                              \o Pair(loc[h].conteudo_processar, loc[h].mensagem_resposta)
                    new == sessions'[loc[h].phone].historico
                IN /\ Len(new) = IF Len(all) > 20 THEN 20 ELSE Len(all)
                   /\ \A i \in 1..Len(new) : new[i] = all[Len(all) - Len(new) + i] ]_vars

\* Two turns on a history of 18 entries: the second write dropped the two
\* oldest entries and kept the 20 newest.
C4_Witness ==
    /\ "p1" \in DOMAIN sessions
    /\ Len(sessions["p1"].historico) = 20
    /\ sessions["p1"].historico[1] = [role |-> "user", content |-> "u2"]
    /\ sessions["p1"].historico[20].role = "assistant"
    /\ sessions["p1"].historico[18].content # "a9"

\* ------------------------------------------------------------------
\* C5: when the AI reply of a turn that was not stopped by a snooze is a
\* plain text, the reply given to the provider is that text and the session
\* write stores history = last 20 of (working history + user entry with the
\* effective message + assistant entry with the reply), with snoozedUntil
\* cleared; for a contact without a session the working history is empty
\* and the row created holds exactly that one pair.
C5_TextTurn ==
    [][ \A h \in Handlers : \A r \in obs[h].resposta :
          r.kind = "str"
          => /\ (Leaves(h, "write") /\ pc'[h] = "send")
                => /\ sessions'[loc[h].phone] =
                         [ historico |-> TurnHistory(h, r.text),
                           last_updated_at |-> now,
                           snoozed_until |-> {} ]
                   /\ loc[h].phone \notin DOMAIN sessions
                         => /\ loc[h].historico_recuperado = << >>
                            /\ sessions'[loc[h].phone].historico
                                  = Pair(loc[h].conteudo_processar, r.text)
             /\ Leaves(h, "send")
                => obs'[h].sent = {[phone |-> loc[h].phone, message |-> r.text]} ]_vars

\* A first text turn of a contact was stored as one pair and its reply sent.
C5_Witness ==
    \E h \in Handlers :
        /\ obs[h].outcome = "replied"
        /\ obs[h].sent = {[phone |-> "p1", message |-> "t1"]}
        /\ "p1" \in DOMAIN sessions
        /\ sessions["p1"].historico = Pair("m1", "t1")
        /\ sessions["p1"].snoozed_until = {}

\* ------------------------------------------------------------------
\* C6 as stated: a read of a session last written more than 24 hours
\* before gives an empty working history and leaves the row as it is; a
\* read of a session of at most 24 hours, the exact 24 hours included,
\* gives the stored history as working history.
C6_ExpiryAfter24h ==
    [][ \A h \in Handlers :
          (Leaves(h, "fetch") /\ pc'[h] = "chat" /\ loc[h].phone \in DOMAIN sessions)
          => LET row == sessions[loc[h].phone] IN
             /\ sessions' = sessions
             /\ now - row.last_updated_at > 24 * 60
                  => loc'[h].historico_recuperado = << >>
             /\ now - row.last_updated_at <= 24 * 60
                  => loc'[h].historico_recuperado = row.historico ]_vars

\* C6 as amended: a read of a session last written 24 hours or more
\* before gives an empty working history and leaves the row as it is, and
\* the next successful session write of that turn replaces the old history
\* by the pair of the turn; a read of a session of less than 24 hours
\* gives the stored history as working history.
C6_ExpiryFrom24h ==
    [][ \A h \in Handlers :
          /\ (Leaves(h, "fetch") /\ pc'[h] = "chat" /\ loc[h].phone \in DOMAIN sessions)
             => LET row == sessions[loc[h].phone] IN
                /\ sessions' = sessions
                /\ now - row.last_updated_at >= 24 * 60
                     => loc'[h].historico_recuperado = << >>
                /\ now - row.last_updated_at < 24 * 60
                     => loc'[h].historico_recuperado = row.historico
          /\ (Leaves(h, "write") /\ pc'[h] = "send" /\ loc[h].historico_recuperado = << >>)
             => Len(sessions'[loc[h].phone].historico) = 2 ]_vars

\* A session read exactly 24 hours after its last write: the working
\* history is empty and the row still holds its 18 entries.
C6_Witness ==
    \E h \in Handlers :
        /\ pc[h] = "chat"
        /\ loc[h].via = "whatsapp"
        /\ loc[h].resultado
        /\ loc[h].historico_recuperado = << >>
        /\ Len(sessions[loc[h].phone].historico) = 18
        /\ now - sessions[loc[h].phone].last_updated_at = 24 * 60

\* ------------------------------------------------------------------
\* C7: a fromMe event calls neither the AI nor the provider; its snooze
\* time is the time of the event + 30 minutes, and its write, when the
\* database accepts it, sets snoozedUntil of the contact to that time: a
\* session that exists keeps its history (and its lastUpdatedAt), and for a
\* contact without one a session with empty history is created.
C7_FromMeSnoozes ==
    [][ \A h \in Handlers :
          /\ (Leaves(h, "idle") /\ pc'[h] = "snooze_select")
             => loc'[h].snooze_until = now + 30
          /\ pc[h] \in {"snooze_select", "snooze_write"}
             => /\ obs'[h].calls \cap {"download", "transcribe", "ai", "lead_write", "send"} = {}
                /\ obs'[h].sent = {}
                /\ pc'[h] \in {"snooze_select", "snooze_write", "idle"}
          /\ (Leaves(h, "snooze_write") /\ obs'[h].outcome = "manual_set")
             => LET p == loc[h].phone IN
                /\ p \in DOMAIN sessions'
                /\ sessions'[p].snoozed_until = {loc[h].snooze_until}
                /\ p \in DOMAIN sessions
                     => /\ sessions'[p].historico = sessions[p].historico
                        /\ sessions'[p].last_updated_at = sessions[p].last_updated_at
                /\ p \notin DOMAIN sessions => sessions'[p].historico = << >>
          /\ (Leaves(h, "snooze_write") /\ obs'[h].outcome # "manual_set")
             => sessions' = sessions ]_vars

\* A fromMe event created the session of a contact that had none.
C7_Witness ==
    \E h \in Handlers :
        /\ obs[h].outcome = "manual_set"
        /\ "p1" \in DOMAIN sessions
        /\ sessions["p1"].historico = << >>
        /\ sessions["p1"].snoozed_until = {InitNow + SNOOZE_MINUTES}

\* ------------------------------------------------------------------
\* C8 as stated: every /whatsapp event with a phone is answered with
\* status ok, whatever failed while it was handled; only an event without
\* a phone is answered with 400.
C8_AlwaysAcknowledged ==
    \A h \in Handlers : \A r \in resp[h] :
        /\ obs[h].outcome = "rejected" => r.code = 400
        /\ obs[h].outcome \notin {"rejected", "chat_reply"} => r.code = 200 /\ r.status = "ok"

\* ------------------------------------------------------------------
\* C9 as stated: a /whatsapp turn in which the session write or the lead
\* write failed (and no other call did) still gives the contact the reply
\* that tells the data may not be registered, and is acknowledged.
C9_WriteFailureStillReplies ==
    \A h \in Handlers :
        ( /\ obs[h].outcome \notin {"", "chat_reply"}
          /\ obs[h].failures # {}
          /\ obs[h].failures \subseteq {"session_write", "lead_write"} )
        => /\ \E m \in obs[h].sent : m.message = LEAD_FAIL_REPLY
           /\ \A r \in resp[h] : r.code = 200 /\ r.status = "ok"

\* C9 as amended: a failed lead write is recovered locally: the reply of
\* the turn is the fixed text that tells the data was received but not
\* registered, it is the only text the turn gives to the provider, and it
\* is given when nothing else of the turn fails.  A failed session write
\* ends the turn without any reply to the contact.  In both cases the event
\* is acknowledged with status ok.
C9_WriteFailureRecovered ==
    \A h \in Handlers :
        obs[h].outcome # "chat_reply"
        => /\ "lead_write" \in obs[h].failures
              => /\ pc[h] \in {"write", "send"} => loc[h].mensagem_resposta = LEAD_FAIL_REPLY
                 /\ \A m \in obs[h].sent : m.message = LEAD_FAIL_REPLY
                 /\ (obs[h].outcome # "" /\ obs[h].failures = {"lead_write"})
                       => obs[h].outcome = "replied" /\ obs[h].sent # {}
           /\ "session_write" \in obs[h].failures
              => "send" \notin obs[h].calls /\ obs[h].sent = {}
           /\ (obs[h].outcome # "" /\ obs[h].failures \cap {"session_write", "lead_write"} # {})
              => resp[h] = {[code |-> 200, status |-> "ok", message |-> ""]}

\* The lead could not be saved and the contact was told so.
C9_Witness ==
    \E h \in Handlers :
        /\ obs[h].outcome = "replied"
        /\ "lead_write" \in obs[h].failures
        /\ obs[h].sent = {[phone |-> "p1", message |-> LEAD_FAIL_REPLY]}
        /\ resp[h] = {[code |-> 200, status |-> "ok", message |-> ""]}

\* ------------------------------------------------------------------
\* C10: the AI gateway never raises: when its call fails (non-2xx status,
\* transport error, timeout, malformed envelope) it returns one of its two
\* fixed apologetic texts.  That text is then the reply of /chat, the reply
\* of the turn, the only text the turn gives to the provider, and it is
\* given to the provider when nothing else of the turn fails.
C10_AIFailureFallback ==
    \A h \in Handlers :
        "ai" \in obs[h].failures
        => \E t \in {AI_STATUS_FALLBACK, AI_ERROR_FALLBACK} :
              /\ obs[h].resposta # {}
              /\ \A r \in obs[h].resposta : r.kind = "str" /\ r.text = t
              /\ pc[h] \in {"write", "send"} => loc[h].mensagem_resposta = t
              /\ \A m \in obs[h].sent : m.message = t
              /\ obs[h].outcome = "chat_reply"
                    => resp[h] = {[code |-> 200, status |-> "", message |-> t]}
              /\ (obs[h].outcome \notin {"", "chat_reply"} /\ obs[h].failures = {"ai"})
                    => obs[h].outcome = "replied" /\ obs[h].sent # {}

\* The AI call of a turn failed otherwise than by a status error, and the
\* contact was sent the apology.
C10_Witness ==
    \E h \in Handlers :
        /\ obs[h].outcome = "replied"
        /\ obs[h].failures = {"ai"}
        /\ obs[h].sent = {[phone |-> "p1", message |-> AI_ERROR_FALLBACK]}

\* ------------------------------------------------------------------
\* The reply of /chat that the step of h out of its await "chat" gives is t:
\* a client of /chat gets it as the response, the webhook keeps it as the
\* reply of the turn (unless its POST failed, and then it has none).
ChatReplyIs(h, t) ==
    /\ loc[h].via = "chat" => resp'[h] = {[code |-> 200, status |-> "", message |-> t]}
    /\ pc'[h] = "write" => loc'[h].mensagem_resposta = t

\* C11 as stated: the answer of the AI is classified Lead (and its save
\* attempted) if and only if it is an object with all four required keys,
\* each with a non-null value, whatever other keys it has; otherwise Text
\* if it is a plain string; otherwise Unrecognized.
C11_Classification ==
    \A h \in Handlers : \A r \in obs[h].resposta :
        LET isLead == r.kind = "dict" /\ \A k \in LeadKeys : k \in DOMAIN r.fields IN
        /\ obs[h].class = IF isLead THEN "lead"
                          ELSE IF r.kind = "str" THEN "text" ELSE "unrecognized"
        /\ ("lead_write" \in obs[h].calls) = isLead

\* ------------------------------------------------------------------
\* C12: when /chat takes the answer of the AI for a lead, it generates one
\* id and tries the insert once.  When the insert succeeds the reply is the
\* fixed confirmation and the table gains exactly one row, with the four
\* fields of the answer; when it fails the reply is the fixed "received
\* but not registered" text and the table is as before.
C12_LeadSavedOnce ==
    [][ \A h \in Handlers : \A r \in obs'[h].resposta :
          ( /\ Leaves(h, "chat")
            /\ r.kind = "dict"
            /\ LeadKeys \subseteq (DOMAIN r.fields \cup r.nulls) )
          => /\ "lead_write" \in obs'[h].calls
             /\ nextId' = nextId + 1
             /\ IF "lead_write" \notin obs'[h].failures
                THEN /\ ChatReplyIs(h, LEAD_OK_REPLY)
                     /\ Cardinality(leads') = Cardinality(leads) + 1
                     /\ \E row \in leads' :
                           /\ leads' = leads \cup {row}
                           /\ \A k \in LeadKeys : row[k] = r.fields[k]
                ELSE /\ ChatReplyIs(h, LEAD_FAIL_REPLY)
                     /\ leads' = leads ]_vars

\* Two leads were saved, and the second turn has the confirmation as its
\* reply.
C12_Witness ==
    \E h \in Handlers :
        /\ pc[h] = "write"
        /\ loc[h].mensagem_resposta = LEAD_OK_REPLY
        /\ "lead_write" \in obs[h].calls \ obs[h].failures
        /\ Cardinality(leads) = 2

\* ------------------------------------------------------------------
\* C13 as stated: the table of leads only grows and its rows never change;
\* a row is added only by a turn whose AI answer is an object with the four
\* required fields, and the row added carries the newly generated id, which
\* no row of the table has.
C13_LeadsOnlyGrow ==
    [][ /\ leads \subseteq leads'
        /\ \A l \in leads' \ leads :
              /\ l.id = nextId
              /\ \A e \in leads : e.id # l.id
              /\ \E h \in Handlers : \E r \in obs'[h].resposta :
                    /\ Leaves(h, "chat")
                    /\ r.kind = "dict"
                    /\ \A k \in LeadKeys : k \in DOMAIN r.fields /\ l[k] = r.fields[k] ]_vars

\* ------------------------------------------------------------------
\* The payloads of the events the handler has to answer itself: with a
\* phone, not fromMe.
Inbound == { payload \in Payloads : payload.phone # "" /\ ~payload.fromMe }

\* C14: a /whatsapp event that is not fromMe and has neither a text nor an
\* audio URL is answered at once as ignored: no session read or write, no
\* media call, no AI call, nothing given to the provider, and both tables
\* are left as they were.
C14_NoContentIgnored ==
    [][ \A h \in Handlers : \A payload \in Inbound :
          ( /\ payload.text = ""
            /\ payload.audio = ""
            /\ \E dl \in DownloadResults, tr \in TranscribeResults : Receive(h, payload, dl, tr) )
          => /\ pc'[h] = "idle"
             /\ obs'[h].outcome = "ignored"
             /\ obs'[h].calls = {}
             /\ obs'[h].sent = {}
             /\ \A r \in resp'[h] : r.code = 200 /\ r.status = "ok"
             /\ sessions' = sessions
             /\ leads' = leads ]_vars

\* An event without content was ignored while the contact has a session.
C14_Witness ==
    \E h \in Handlers :
        /\ pc[h] = "idle"
        /\ obs[h].outcome = "ignored"
        /\ obs[h].calls = {}
        /\ "p1" \in DOMAIN sessions

\* ------------------------------------------------------------------
\* The audio events, and the step of h that receives one of them with the
\* download giving dl and the transcription giving tr.
AudioEvents == { payload \in Inbound : payload.text = "" /\ payload.audio # "" }
ReceivesAudio(h, dl, tr) == \E payload \in AudioEvents : Receive(h, payload, dl, tr)

\* C15 as stated: the effective message of an audio event is the
\* download-failure placeholder when the download fails, the
\* transcription-failure placeholder when the download succeeds and the
\* transcription fails, and the transcript verbatim when both succeed; the
\* turn goes on to the session fetch with it.
C15_AudioContent ==
    [][ \A h \in Handlers : \A dl \in DownloadResults : \A tr \in TranscribeResults :
          ReceivesAudio(h, dl, tr)
          => /\ pc'[h] = "fetch"
             /\ loc'[h].conteudo_processar =
                   IF dl = {} THEN DOWNLOAD_FAIL_TEXT
                   ELSE IF tr = {} THEN TRANSCRIBE_FAIL_TEXT
                   ELSE CHOOSE t \in tr : TRUE ]_vars

\* C15 as amended: the effective message of an audio event is the
\* download-failure placeholder when the download fails or gives no bytes,
\* the transcription-failure placeholder (a different text) when there are
\* bytes and the transcription fails or gives an empty text, and the
\* transcript verbatim when there are bytes and a non-empty transcript.
\* The turn goes on to the session fetch with it, keeps it to its end, and
\* the AI call of the turn has it as the content of its user message.
C15_AudioContentNonEmpty ==
    /\ [](DOWNLOAD_FAIL_TEXT # TRANSCRIBE_FAIL_TEXT)
    /\ [][ \A h \in Handlers :
             /\ \A dl \in DownloadResults : \A tr \in TranscribeResults :
                   ReceivesAudio(h, dl, tr)
                   => /\ pc'[h] = "fetch"
                      /\ loc'[h].conteudo_processar =
                            IF dl \in { {}, {""} } THEN DOWNLOAD_FAIL_TEXT
                            ELSE IF tr \in { {}, {""} } THEN TRANSCRIBE_FAIL_TEXT
                            ELSE CHOOSE t \in tr : TRUE
             /\ (pc[h] \in {"fetch", "chat", "write"} /\ pc'[h] # "idle")
                   => loc'[h].conteudo_processar = loc[h].conteudo_processar
             /\ (Leaves(h, "chat") /\ "ai" \in obs'[h].calls)
                   => obs'[h].mensagem = {loc[h].conteudo_processar} ]_vars

\* No call failed, the transcript was empty, and the AI was asked with the
\* transcription-failure placeholder as the user message.
C15_Witness ==
    \E h \in Handlers :
        /\ faults = 0
        /\ {"download", "transcribe", "ai"} \subseteq obs[h].calls
        /\ obs[h].failures = {"transcribe"}
        /\ obs[h].mensagem = {TRANSCRIBE_FAIL_TEXT}

\* ------------------------------------------------------------------
\* C16: the events of one contact are not coordinated.  When two events
\* have read the same history and one of them has stored its turn, the
\* session write of the other replaces what the first stored by the
\* history both read + its own pair: the pair of the first is lost, and
\* the history has grown by one turn where two were answered.
C16_LostUpdate ==
    [][ \A h \in Handlers : \A g \in Handlers \ {h} :
          ( /\ Leaves(h, "write")
            /\ pc'[h] = "send"
            /\ pc[g] = "send"
            /\ loc[g].phone = loc[h].phone
            /\ loc[g].historico_recuperado = loc[h].historico_recuperado )
          => LET read == loc[h].historico_recuperado
                 before == sessions[loc[h].phone].historico
                 after == sessions'[loc[h].phone].historico
             IN /\ before = Suffix(read \o Pair(loc[g].conteudo_processar,
                                                  loc[g].mensagem_resposta), 20)
                /\ after = Suffix(read \o Pair(loc[h].conteudo_processar,
                                                 loc[h].mensagem_resposta), 20)
                /\ Len(read) <= 18 => Len(after) = Len(read) + 2 ]_vars

\* Two events of a contact with a history of 18 entries, a typed text and
\* an audio, were both stored and both answered, and the history has 20
\* entries from the first of the 18 on: it holds the message of one of
\* them and not that of the other.
C16_Witness ==
    \E h \in Handlers : \E g \in Handlers \ {h} :
        /\ obs[h].outcome = "replied"
        /\ obs[g].outcome = "replied"
        /\ "session_write" \in obs[h].calls \ obs[h].failures
        /\ "session_write" \in obs[g].calls \ obs[g].failures
        /\ obs[h].mensagem # obs[g].mensagem
        /\ "p1" \in DOMAIN sessions
        /\ LET hist == sessions["p1"].historico IN
           /\ Len(hist) = 20
           /\ hist[1].content = "u1"
           /\ obs[h].mensagem = {hist[19].content}
           /\ \A i \in 1..20 : obs[g].mensagem # {hist[i].content}

\* ------------------------------------------------------------------
\* C17: in every reachable state the stored history of every session is
\* made of whole pairs: its length is even and its entries are user,
\* assistant, user, assistant, ... from the first on.
C17_WholePairs ==
    \A p \in DOMAIN sessions :
        LET hist == sessions[p].historico IN
        /\ Len(hist) % 2 = 0
        /\ \A i \in 1..Len(hist) :
              hist[i].role = IF i % 2 = 1 THEN "user" ELSE "assistant"

\* Two events run at the same time, the second read what the first
\* stored, and its write cut the two oldest entries off a history of 22.
C17_Witness ==
    /\ \A h \in Handlers : pc[h] = "send"
    /\ "p1" \in DOMAIN sessions
    /\ Len(sessions["p1"].historico) = 20
    /\ sessions["p1"].historico[1].content = "u2"
    /\ sessions["p1"].historico[20].role = "assistant"

\* ------------------------------------------------------------------
\* The outcomes a /whatsapp event with a phone may end in, by section 4.6:
\* ignored, manual mode (snooze set, or snooze found), replied, failed with
\* the failure absorbed by the handler.
TerminalOutcomes == {"ignored", "manual_set", "manual", "replied", "failed"}

\* C18 as stated: with every awaited call returning or failing in the end,
\* every /whatsapp event with a phone ends, in exactly one of the terminal
\* outcomes; and when its handler has returned nothing is left of it but
\* the rows of the two tables.
C18_EventsTerminate ==
    /\ \A h \in Handlers :
          (pc[h] # "idle" /\ loc[h].via = "whatsapp")
             ~> (pc[h] = "idle" /\ obs[h].outcome \in TerminalOutcomes)
    /\ [](\A h \in Handlers :
            pc[h] = "idle"
            => /\ obs[h].outcome \in TerminalOutcomes \cup {"", "rejected", "chat_reply"}
               /\ loc[h] = NoLocals)

\* ------------------------------------------------------------------
\* C19 as stated: a snooze that is still in the future is never cleared or
\* shortened: after every step the contact has a snooze that ends no
\* earlier, also after the session write of an event that read the session
\* before the snooze was set.
C19_SnoozeKept ==
    [][ \A p \in DOMAIN sessions : \A s \in sessions[p].snoozed_until :
          s > now
          => /\ p \in DOMAIN sessions'
             /\ \E t \in sessions'[p].snoozed_until : t >= s ]_vars

\* ------------------------------------------------------------------
\* C20: in one /whatsapp turn the reply is given to the provider only
\* after the session write of that turn succeeded: a handler that sends, or
\* is about to, has a successful session write behind it, and a handler
\* whose session write failed has returned without sending.  The write
\* stores the reply as the last assistant entry, and the send changes
\* nothing in the tables whether it succeeds or fails: after a failed send
\* the table still holds an assistant entry the contact did not get.
C20_SendAfterWrite ==
    /\ [](\A h \in Handlers :
            /\ (pc[h] = "send" \/ "send" \in obs[h].calls \/ obs[h].sent # {})
                  => "session_write" \in obs[h].calls \ obs[h].failures
            /\ "session_write" \in obs[h].failures
                  => /\ pc[h] = "idle"
                     /\ "send" \notin obs[h].calls
                     /\ obs[h].sent = {})
    /\ [][ \A h \in Handlers :
             /\ (Leaves(h, "write") /\ pc'[h] = "send")
                   => LET hist == sessions'[loc[h].phone].historico IN
                      /\ Len(hist) >= 2
                      /\ hist[Len(hist)] =
                            [role |-> "assistant", content |-> loc[h].mensagem_resposta]
             /\ Leaves(h, "send")
                   => /\ sessions' = sessions
                      /\ leads' = leads
                      /\ obs'[h].outcome =
                            IF "send" \in obs'[h].failures THEN "failed" ELSE "replied" ]_vars

\* The send of a first turn failed: the event ended as failed, and the
\* session holds the pair with the reply that was not delivered.
C20_Witness ==
    \E h \in Handlers :
        /\ obs[h].outcome = "failed"
        /\ obs[h].failures = {"send"}
        /\ "p1" \in DOMAIN sessions
        /\ sessions["p1"].historico = Pair("m1", "t1")

====
